---- MODULE Spec2Model ----
(***************************************************************************)
(* Model of the extraction pipeline of sec_filing_extractor:               *)
(*   - SimpleTableParser (extractors/table_extractor.py), the streaming    *)
(*     HTML table parser, as a state machine over tag/text events;         *)
(*   - TableExtractor.extract, the width/count filter and the writers;     *)
(*   - SectionExtractor._html_to_text and SectionExtractor.extract;        *)
(*   - BaseExtractor.validate_source / ensure_output_dir.                  *)
(* Strings are sequences of one-character strings, Python's None is the    *)
(* empty option <<>> and a present value x is <<x>>.                       *)
(***************************************************************************)
EXTENDS Integers, Sequences, FiniteSets, TLC

\* ------------------------------------------------------------------ bounds
MaxEvents == 10
MaxRows == 2
MaxCells == 3
MaxTables == 2
MaxChunks == 3
MaxObs == 3

\* ------------------------------------------------------------------ options
None == <<>>
Some(x) == <<x>>
IsNone(o) == o = <<>>
Val(o) == o[1]

\* ------------------------------------------------------------------ strings
Whitespace == {" ", "\n", "\t", "\r", "\f"}

RECURSIVE Concat(_)
Concat(ss) == IF ss = <<>> THEN <<>> ELSE Head(ss) \o Concat(Tail(ss))

SetMin(S) == CHOOSE x \in S : \A y \in S : x <= y
SetMax(S) == CHOOSE x \in S : \A y \in S : x >= y
FirstIn(S) == IF S = {} THEN 0 ELSE SetMin(S)

From(s, i) == SubSeq(s, i, Len(s))
Chars(s) == {s[i] : i \in 1..Len(s)}

\* the first position >= i of s whose character is not in set, Len(s) + 1 if
\* there is none: the end of a greedy run of characters of set starting at i
SkipSet(s, i, set) ==
    IF i > Len(s) THEN i
    ELSE SetMin({k \in i..(Len(s) + 1) : k = Len(s) + 1 \/ s[k] \notin set})

LStrip(s) == From(s, SkipSet(s, 1, Whitespace))

RStrip(s) ==
    SubSeq(s, 1, SetMax({0} \cup {k \in 1..Len(s) : s[k] \notin Whitespace}))

Strip(s) == RStrip(LStrip(s))

\* re.sub(pattern, repl, s) for a pattern whose matches that end at different
\* places never overlap: of the matches that end at the same place the leftmost
\* is replaced, the others lie inside it.  spans holds, for every position
\* where a match starts, that position, the last position of the match and the
\* character that replaces it.  A position is dropped when a match that starts
\* before it reaches it.
Span(i, e, c) == [start |-> i, end |-> e, repl |-> c]

Positions(s) == [i \in 1..Len(s) |-> i]

sub_kept(s, spans, kept) ==
    [n \in 1..Len(kept) |->
        IF \E sp \in spans : sp.start = kept[n]
        THEN (CHOOSE sp \in spans : sp.start = kept[n]).repl
        ELSE s[kept[n]]]

sub_spans(s, spans) ==
    IF s = <<>> \/ spans = {} THEN s
    ELSE sub_kept(s, spans,
             SelectSeq(Positions(s),
                       LAMBDA k : \A sp \in spans : ~(sp.start < k /\ k <= sp.end)))

\* re.sub(r"\s+", " ", text): every maximal whitespace run becomes one space
CollapseWhitespace(s) ==
    sub_spans(s, {Span(i, SkipSet(s, i, Whitespace) - 1, " ") :
                     i \in {k \in 1..Len(s) : s[k] \in Whitespace}})

\* mutant: the strip() is forgotten
clean_text_nostrip(text) == CollapseWhitespace(text)

clean_text(text) == Strip(CollapseWhitespace(text))

\* ------------------------------------------------------------------ parser
ParserInit ==
    [ tables         |-> <<>>,
      in_table_depth |-> 0,
      current_table  |-> None,
      current_row    |-> None,
      in_cell        |-> FALSE,
      cell_buffer    |-> <<>> ]

CellTags == {"td", "th"}

\* mutant: every table-open, nested or not, starts a new accumulating table
handle_starttag_restart(p, tag) ==
    IF tag = "table"
    THEN [p EXCEPT !.current_table = Some(<<>>), !.in_table_depth = @ + 1]
    ELSE IF p.in_table_depth > 0
    THEN IF tag = "tr"
         THEN [p EXCEPT !.current_row = Some(<<>>)]
         ELSE IF tag \in CellTags
         THEN [p EXCEPT !.in_cell = TRUE, !.cell_buffer = <<>>]
         ELSE p
    ELSE p

handle_starttag(p, tag) ==
    IF tag = "table"
    THEN [p EXCEPT !.current_table  = IF p.in_table_depth = 0 THEN Some(<<>>) ELSE @,
                   !.in_table_depth = @ + 1]
    ELSE IF p.in_table_depth > 0
    THEN IF tag = "tr"
         THEN [p EXCEPT !.current_row = Some(<<>>)]
         ELSE IF tag \in CellTags
         THEN [p EXCEPT !.in_cell = TRUE, !.cell_buffer = <<>>]
         ELSE p
    ELSE p

\* mutant: the table-close decrements the depth whether or not a table is open
EndTable_unguarded(p) ==
    LET d == p.in_table_depth - 1 IN
    IF d = 0 /\ ~IsNone(p.current_table)
    THEN [p EXCEPT !.in_table_depth = d,
                   !.tables         = Append(@, Val(p.current_table)),
                   !.current_table  = None]
    ELSE [p EXCEPT !.in_table_depth = d]

EndTable(p) ==
    IF p.in_table_depth > 0
    THEN LET d == p.in_table_depth - 1 IN
         IF d = 0 /\ ~IsNone(p.current_table)
         THEN [p EXCEPT !.in_table_depth = d,
                        !.tables         = Append(@, Val(p.current_table)),
                        !.current_table  = None]
         ELSE [p EXCEPT !.in_table_depth = d]
    ELSE p

\* mutant: the cell-close appends a cell whether or not a cell is open
EndCell_unguarded(p) ==
    LET text == clean_text(Concat(p.cell_buffer))
        row  == IF ~IsNone(p.current_row)
                THEN Some(Append(Val(p.current_row), text))
                ELSE p.current_row
    IN [p EXCEPT !.current_row = row, !.in_cell = FALSE, !.cell_buffer = <<>>]

EndCell(p) ==
    LET text == clean_text(Concat(p.cell_buffer))
        row  == IF p.in_cell /\ ~IsNone(p.current_row)
                THEN Some(Append(Val(p.current_row), text))
                ELSE p.current_row
    IN [p EXCEPT !.current_row = row, !.in_cell = FALSE, !.cell_buffer = <<>>]

EndRow(p) ==
    LET tbl == IF ~IsNone(p.current_row) /\ ~IsNone(p.current_table)
               THEN Some(Append(Val(p.current_table), Val(p.current_row)))
               ELSE p.current_table
    IN [p EXCEPT !.current_table = tbl, !.current_row = None]

handle_endtag(p, tag) ==
    IF tag = "table" THEN EndTable(p)
    ELSE IF p.in_table_depth > 0
    THEN IF tag \in CellTags THEN EndCell(p)
         ELSE IF tag = "tr" THEN EndRow(p)
         ELSE p
    ELSE p

handle_data(p, data) ==
    IF p.in_table_depth > 0 /\ p.in_cell
    THEN [p EXCEPT !.cell_buffer = Append(@, data)]
    ELSE p

\* One callback of HTMLParser.feed, dispatched on the event kind.
StartEv(t) == [kind |-> "start", tag |-> t, data |-> <<>>]
EndEv(t)   == [kind |-> "end",   tag |-> t, data |-> <<>>]
DataEv(s)  == [kind |-> "data",  tag |-> "", data |-> s]
NoEv       == [kind |-> "none",  tag |-> "", data |-> <<>>]

Dispatch(p, e) ==
    IF e.kind = "start" THEN handle_starttag(p, e.tag)
    ELSE IF e.kind = "end" THEN handle_endtag(p, e.tag)
    ELSE IF e.kind = "data" THEN handle_data(p, e.data)
    ELSE p

\* parser.feed(html_content): the parser after the first n callbacks
RECURSIVE FeedUpTo(_, _)
FeedUpTo(events, n) ==
    IF n = 0 THEN ParserInit ELSE Dispatch(FeedUpTo(events, n - 1), events[n])

feed(events) == FeedUpTo(events, Len(events))

\* ------------------------------------------------------------------ events
Tags == {"table", "tr", "td", "th", "b"}
Texts == { <<"a">>, <<" ", "b", " ", "\n", "c", " ">> }
Events == {StartEv(t) : t \in Tags} \cup {EndEv(t) : t \in Tags}
              \cup {DataEv(s) : s \in Texts}

\* ------------------------------------------------------------------ state
VARIABLES
    parser,     \* the SimpleTableParser object
    ev,         \* the event of the callback that ran last
    nfed,       \* number of callbacks run so far
    table_no,   \* history: outermost tables opened so far
    row_table,  \* history: value of table_no when the row in progress was opened
    nested_no,  \* history: table-open tags seen inside an open table so far
    origin,     \* history: where the open cell and the text of the row come from
    gen,        \* the writer of well-formed markup (SpecRoundTrip only)
    call,       \* the arguments and environment of one extract() call (SpecExtract only)
    fs,         \* the output directory and the files written into it
    res         \* how the extract() call ended, and what it returned

vars == <<parser, ev, nfed, table_no, row_table, nested_no, origin, gen, call, fs, res>>

NoCall == [op |-> "none", src |-> "missing", doc |-> <<>>, html |-> <<>>,
           min_columns |-> None, max_tables |-> None, fail |-> {}]
NoFiles == [dir |-> FALSE, csv |-> <<>>, json |-> None, md |-> <<>>, index |-> None]
NoResult == [status |-> "none", parsed |-> FALSE, count |-> 0, kept |-> <<>>,
             tables |-> <<>>, text |-> <<>>, sections |-> <<>>]

\* History: cell is the ordinal of the table in which the open cell was opened
\* (0 without one), row_stale tells that the row in progress has a cell that
\* was not opened in the table in which it was closed.
NoOrigin == [cell |-> 0, row_stale |-> FALSE]

GenIdle == [phase |-> "idle", rows |-> <<>>, row |-> <<>>, pieces |-> <<>>, tag |-> "",
            ncells |-> 0]

Init ==
    /\ parser = ParserInit
    /\ ev = NoEv
    /\ nfed = 0
    /\ table_no = 0
    /\ row_table = 0
    /\ nested_no = 0
    /\ origin = NoOrigin
    /\ gen = GenIdle
    /\ call = NoCall /\ fs = NoFiles /\ res = NoResult

\* History: the ordinal of the outermost table being read, and the ordinal of
\* the table in which the row in progress was opened.
NextTableNo(p, e) ==
    IF e.kind = "start" /\ e.tag = "table" /\ p.in_table_depth = 0
    THEN table_no + 1 ELSE table_no

NextRowTable(p, e) ==
    IF e.kind = "start" /\ e.tag = "tr" /\ p.in_table_depth > 0
    THEN table_no ELSE row_table

NextNestedNo(p, e) ==
    IF e.kind = "start" /\ e.tag = "table" /\ p.in_table_depth > 0
    THEN nested_no + 1 ELSE nested_no

NextOrigin(p, e) ==
    IF p.in_table_depth > 0 /\ e.kind = "start" /\ e.tag \in CellTags
    THEN [origin EXCEPT !.cell = table_no]
    ELSE IF p.in_table_depth > 0 /\ e.kind = "end" /\ e.tag \in CellTags
    THEN [cell |-> 0,
          row_stale |-> \/ origin.row_stale
                        \/ p.in_cell /\ ~IsNone(p.current_row) /\ origin.cell # table_no]
    ELSE IF p.in_table_depth > 0 /\ e.kind \in {"start", "end"} /\ e.tag = "tr"
    THEN [origin EXCEPT !.row_stale = FALSE]
    ELSE origin

\* One callback of the parser on event e.
Handle(e) ==
    /\ origin' = NextOrigin(parser, e)
    /\ parser' = Dispatch(parser, e)
    /\ ev' = e
    /\ table_no' = NextTableNo(parser, e)
    /\ row_table' = NextRowTable(parser, e)
    /\ nested_no' = NextNestedNo(parser, e)

Feed(e) ==
    /\ nfed < MaxEvents
    /\ nfed' = nfed + 1
    /\ Handle(e)
    /\ UNCHANGED <<gen, call, fs, res>>

StartTag == \E t \in Tags : Feed(StartEv(t))
EndTag == \E t \in Tags : Feed(EndEv(t))
Data == \E s \in Texts : Feed(DataEv(s))

Next == StartTag \/ EndTag \/ Data

\* Any finite sequence of at most MaxEvents events, balanced or not.
Spec == Init /\ [][Next]_vars

\* ------------------------------------------------------------------ well-formed markup
\* A writer of one well-formed table of at most MaxRows rows and MaxCells cells:
\* every row and cell opened and closed, no nesting; ragged rows allowed; a cell's text arrives in zero, one or two data
\* callbacks; inline tags and inter-tag whitespace may occur anywhere.
CellPieces == { <<>>, << <<"a">> >>, << <<" ", "b", " ", "\n", "c", " ">>, <<"a">> >> }

IsPrefix(s, t) == Len(s) <= Len(t) /\ SubSeq(t, 1, Len(s)) = s

InitRoundTrip ==
    /\ parser = ParserInit
    /\ ev = NoEv
    /\ nfed = 0
    /\ table_no = 0
    /\ row_table = 0
    /\ nested_no = 0
    /\ origin = NoOrigin
    /\ gen = [GenIdle EXCEPT !.phase = "start"]
    /\ call = NoCall /\ fs = NoFiles /\ res = NoResult

Emit(e) == Handle(e) /\ UNCHANGED <<nfed, call, fs, res>>

GenTableOpen ==
    /\ gen.phase = "start"
    /\ Emit(StartEv("table"))
    /\ gen' = [gen EXCEPT !.phase = "table"]

GenRowOpen ==
    /\ gen.phase = "table"
    /\ Len(gen.rows) < MaxRows
    /\ Emit(StartEv("tr"))
    /\ gen' = [gen EXCEPT !.phase = "row", !.row = <<>>]

GenCellOpen ==
    /\ gen.phase = "row"
    /\ gen.ncells < MaxCells
    /\ \E t \in CellTags :
          /\ Emit(StartEv(t))
          /\ gen' = [gen EXCEPT !.phase = "cell", !.tag = t, !.pieces = <<>>,
                                !.ncells = @ + 1]

GenCellText ==
    /\ gen.phase = "cell"
    /\ \E s \in Texts :
          /\ \E c \in CellPieces : IsPrefix(Append(gen.pieces, s), c)
          /\ Emit(DataEv(s))
          /\ gen' = [gen EXCEPT !.pieces = Append(@, s)]

GenCellClose ==
    /\ gen.phase = "cell"
    /\ gen.pieces \in CellPieces
    /\ Emit(EndEv(gen.tag))
    /\ gen' = [gen EXCEPT !.phase = "row", !.row = Append(@, Concat(gen.pieces)),
                          !.pieces = <<>>, !.tag = ""]

GenRowClose ==
    /\ gen.phase = "row"
    /\ Emit(EndEv("tr"))
    /\ gen' = [gen EXCEPT !.phase = "table", !.rows = Append(@, gen.row), !.row = <<>>]

GenTableClose ==
    /\ gen.phase = "table"
    /\ Emit(EndEv("table"))
    /\ gen' = [gen EXCEPT !.phase = "done"]

\* markup the parser has no branch for: inline tags anywhere, text between tags
GenInline ==
    /\ gen.phase \in {"start", "table", "row", "cell", "done"}
    /\ \E e \in {StartEv("b"), EndEv("b")} : Emit(e)
    /\ UNCHANGED gen

GenOuterText ==
    /\ gen.phase \in {"start", "table", "row", "done"}
    /\ \E s \in Texts : Emit(DataEv(s))
    /\ UNCHANGED gen

NextRoundTrip ==
    \/ GenTableOpen \/ GenRowOpen \/ GenCellOpen \/ GenCellText \/ GenCellClose
    \/ GenRowClose \/ GenTableClose \/ GenInline \/ GenOuterText

SpecRoundTrip == InitRoundTrip /\ [][NextRoundTrip]_vars

\* ------------------------------------------------------------------ BaseExtractor
SourceKinds == {"missing", "dir", "empty", "file"}

\* mutant: the size check is forgotten
validate_source_no_size(src) == src \in {"file", "empty"}

\* TRUE when validate_source returns, FALSE when it raises ExtractionError
validate_source(src) ==
    /\ src # "missing"      \* source.exists()
    /\ src # "dir"          \* source.is_file()
    /\ src # "empty"        \* source.stat().st_size

ensure_output_dir(f) == [f EXCEPT !.dir = TRUE]

\* ------------------------------------------------------------------ TableExtractor
min_table_columns == 2
max_tables_per_file == 200

Max(a, b) == IF a >= b THEN a ELSE b

\* mutant: the width is taken from the first row only
table_width_first_row(table) == IF table = <<>> THEN 0 ELSE Len(table[1])

\* max((len(row) for row in table ...), default=0)
RECURSIVE table_width(_)
table_width(table) ==
    IF table = <<>> THEN 0 ELSE Max(Len(Head(table)), table_width(Tail(table)))

\* The filter loop from table number i on; kept holds the numbers of the tables
\* appended to filtered_tables so far.
RECURSIVE filter_loop(_, _, _, _, _)
filter_loop(tables, i, kept, min_columns, max_tables) ==
    IF i > Len(tables) THEN kept
    ELSE LET kept2 == IF table_width(tables[i]) >= min_columns
                      THEN Append(kept, i) ELSE kept
         IN IF Len(kept2) >= max_tables THEN kept2
            ELSE filter_loop(tables, i + 1, kept2, min_columns, max_tables)

filter_tables(tables, min_columns, max_tables) ==
    filter_loop(tables, 1, <<>>, min_columns, max_tables)

EffectiveMinColumns(c) ==
    IF IsNone(c.min_columns) THEN min_table_columns ELSE Val(c.min_columns)
EffectiveMaxTables(c) ==
    IF IsNone(c.max_tables) THEN max_tables_per_file ELSE Val(c.max_tables)

\* extract() raised ExtractionError, before (parsed = FALSE) or after the source
\* was read and parsed
Failed(parsed) == [NoResult EXCEPT !.status = "error", !.parsed = parsed]

table_write_no_empty_json(c, f1, tables, kept, filtered, nwritten) ==
    IF nwritten < Len(filtered) \/ 0 \in c.fail
    THEN [fs  |-> [f1 EXCEPT !.csv = SubSeq(filtered, 1, nwritten)],
          res |-> [Failed(TRUE) EXCEPT !.kept = kept, !.tables = tables]]
    ELSE [fs  |-> [f1 EXCEPT !.csv = filtered,
                             !.json = IF filtered = <<>> THEN None
                                     ELSE Some([table_count |-> Len(filtered),
                                                tables |-> filtered])],
          res |-> [NoResult EXCEPT !.status = "ok", !.parsed = TRUE,
                                   !.count = Len(filtered), !.kept = kept,
                                   !.tables = tables]]

\* the writes of TableExtractor.extract, nwritten CSV files being written
\* before a refused write (if any) raises
table_write(c, f1, tables, kept, filtered, nwritten) ==
    IF nwritten < Len(filtered) \/ 0 \in c.fail
    THEN [fs  |-> [f1 EXCEPT !.csv = SubSeq(filtered, 1, nwritten)],
          res |-> [Failed(TRUE) EXCEPT !.kept = kept, !.tables = tables]]
    ELSE [fs  |-> [f1 EXCEPT !.csv = filtered,
                             !.json = Some([table_count |-> Len(filtered),
                                            tables |-> filtered])],
          res |-> [NoResult EXCEPT !.status = "ok", !.parsed = TRUE,
                                   !.count = Len(filtered), !.kept = kept,
                                   !.tables = tables]]

table_filtered(c, f1, tables, kept) ==
    table_write(c, f1, tables, kept, [k \in 1..Len(kept) |-> tables[kept[k]]],
        IF \E k \in 1..Len(kept) : k \in c.fail
        THEN SetMin({k \in 1..Len(kept) : k \in c.fail}) - 1
        ELSE Len(kept))

\* TableExtractor.extract once the source is parsed: the files left behind and
\* the outcome.  c.fail holds the writes the file system refuses: k for the CSV
\* of retained table k, 0 for the aggregate JSON file.
table_parsed(c, f1, tables) ==
    table_filtered(c, f1, tables,
        filter_tables(tables, EffectiveMinColumns(c), EffectiveMaxTables(c)))

\* ------------------------------------------------------------------ SectionExtractor
LowerAlpha == << "a", "b", "c", "d", "e", "f", "g", "h", "i", "j", "k", "l", "m",
                 "n", "o", "p", "q", "r", "s", "t", "u", "v", "w", "x", "y", "z" >>
UpperAlpha == << "A", "B", "C", "D", "E", "F", "G", "H", "I", "J", "K", "L", "M",
                 "N", "O", "P", "Q", "R", "S", "T", "U", "V", "W", "X", "Y", "Z" >>
Digits == << "0", "1", "2", "3", "4", "5", "6", "7", "8", "9" >>

IndexIn(alpha, c) ==
    IF \E i \in 1..Len(alpha) : alpha[i] = c
    THEN CHOOSE i \in 1..Len(alpha) : alpha[i] = c
    ELSE 0

Lower(c) == IF IndexIn(UpperAlpha, c) > 0 THEN LowerAlpha[IndexIn(UpperAlpha, c)] ELSE c
Upper(c) == IF IndexIn(LowerAlpha, c) > 0 THEN UpperAlpha[IndexIn(LowerAlpha, c)] ELSE c
IsDigit(c) == IndexIn(Digits, c) > 0
IsLetter(c) == IndexIn(LowerAlpha, Lower(c)) > 0
UpperStr(s) == [i \in 1..Len(s) |-> Upper(s[i])]
\* the lower-case pattern pat occurs in s at position i, letter case ignored (re.I)
MatchesAt(s, i, pat) ==
    /\ i >= 1
    /\ i + Len(pat) - 1 <= Len(s)
    /\ \A k \in 1..Len(pat) : Lower(s[i + k - 1]) = pat[k]

\* the first position >= i where pat occurs, 0 when there is none
FindFrom(s, i, pat) == FirstIn({j \in i..Len(s) : MatchesAt(s, j, pat)})

ScriptOpen  == << "<", "s", "c", "r", "i", "p", "t" >>
ScriptClose == << "<", "/", "s", "c", "r", "i", "p", "t", ">" >>
StyleOpen   == << "<", "s", "t", "y", "l", "e" >>
StyleClose  == << "<", "/", "s", "t", "y", "l", "e", ">" >>

\* the last position of the match of open[\s\S]*?close that starts at i, 0
\* when none starts there
block_end(c, close) == IF c = 0 THEN 0 ELSE c + Len(close) - 1

BlockEnd(s, i, open, close) ==
    IF s[i] = "<" /\ MatchesAt(s, i, open)
    THEN block_end(FindFrom(s, i + Len(open), close), close) ELSE 0

\* re.sub(open + r"[\s\S]*?" + close, " ", s, flags=re.I)
sub_block(s, open, close) ==
    sub_spans(s, {Span(i, BlockEnd(s, i, open, close), " ") :
                     i \in {k \in 1..Len(s) : BlockEnd(s, k, open, close) > 0}})

BreakTags ==
    { << "<", "b", "r", ">" >>, << "<", "/", "p", ">" >>,
      << "<", "/", "d", "i", "v", ">" >>, << "<", "/", "t", "r", ">" >> }
    \cup { << "<", "/", "h", Digits[d], ">" >> : d \in 1..Len(Digits) }

BreakAt(s, i) == IF s[i] = "<" THEN {t \in BreakTags : MatchesAt(s, i, t)} ELSE {}

\* re.sub(r"<(br|/p|/div|/tr|/h\d)>", "\n", s, flags=re.I)
sub_breaks(s) ==
    sub_spans(s, {Span(i, i + Len(CHOOSE t \in BreakAt(s, i) : TRUE) - 1, "\n") :
                     i \in {k \in 1..Len(s) : BreakAt(s, k) # {}}})

\* the last position of the match of <[^>]+> that starts at i, 0 when none
\* starts there
TagEnd(s, i) ==
    IF s[i] = "<" /\ i + 2 <= Len(s) /\ s[i + 1] # ">"
    THEN FindFrom(s, i + 2, <<">">>) ELSE 0

\* re.sub(r"<[^>]+>", " ", s)
sub_tags(s) ==
    sub_spans(s, {Span(i, TagEnd(s, i), " ") : i \in {k \in 1..Len(s) : TagEnd(s, k) > 0}})

\* html.unescape on the character references the documents use; "NBSP" stands
\* for the one character U+00A0
Entities ==
    { [ref |-> << "&", "a", "m", "p", ";" >>, char |-> "&"],
      [ref |-> << "&", "l", "t", ";" >>, char |-> "<"],
      [ref |-> << "&", "g", "t", ";" >>, char |-> ">"],
      [ref |-> << "&", "n", "b", "s", "p", ";" >>, char |-> "NBSP"] }

EntityAt(s, i) ==
    IF s[i] = "&" THEN {e \in Entities : IsPrefix(e.ref, From(s, i))} ELSE {}

EntitySpan(i, e) == Span(i, i + Len(e.ref) - 1, e.char)

unescape(s) ==
    sub_spans(s, {EntitySpan(i, CHOOSE e \in EntityAt(s, i) : TRUE) :
                     i \in {k \in 1..Len(s) : EntityAt(s, k) # {}}})

\* re.sub(r"\r\n|\r", "\n", s)
sub_line_endings(s) ==
    sub_spans(s, {Span(i, IF i + 1 <= Len(s) /\ s[i + 1] = "\n" THEN i + 1 ELSE i, "\n") :
                     i \in {k \in 1..Len(s) : s[k] = "\r"}})

\* re.sub(r" ", " ", s)
sub_nbsp(s) ==
    IF s = <<>> THEN s ELSE [i \in 1..Len(s) |-> IF s[i] = "NBSP" THEN " " ELSE s[i]]

\* re.sub(r"[\t ]+", " ", s)
sub_blanks(s) ==
    sub_spans(s, {Span(i, SkipSet(s, i, {"\t", " "}) - 1, " ") :
                     i \in {k \in 1..Len(s) : s[k] \in {"\t", " "}}})

\* \n{n,} matches at i
NewlinesAt(s, n, i) ==
    s[i] = "\n" /\ i + n - 1 <= Len(s) /\ \A k \in i..(i + n - 1) : s[k] = "\n"

\* the replacement has two characters: the first two positions of a match stay
sub_newlines_spans(s, spans) ==
    IF s = <<>> \/ spans = {} THEN s
    ELSE sub_kept(s, {},
             SelectSeq(Positions(s),
                       LAMBDA k : \A sp \in spans : ~(sp.start + 1 < k /\ k <= sp.end)))

\* re.sub(r"\n{n,}", "\n\n", s) for n = 2 (_html_to_text) and n = 3 (_find_sections)
sub_newlines(s, n) ==
    sub_newlines_spans(s, {Span(i, SkipSet(s, i, {"\n"}) - 1, "\n") :
                              i \in {k \in 1..Len(s) : NewlinesAt(s, n, k)}})

\* _html_to_text with the runs of blanks collapsed before the tags are replaced
html_to_text_blanks_first(html) ==
    LET text2 == sub_blanks(sub_block(html, StyleOpen, StyleClose))
        text3 == sub_tags(sub_breaks(text2))
        text4 == sub_nbsp(sub_line_endings(unescape(text3)))
    IN sub_newlines(text4, 2)

\* SectionExtractor._html_to_text.  Line 108 removes the script blocks into
\* text; line 109 then assigns text again from html, not from text.
html_to_text(html) ==
    LET text1 == sub_block(html, ScriptOpen, ScriptClose)
        text2 == sub_block(html, StyleOpen, StyleClose)
        text3 == sub_tags(sub_breaks(text2))
        text4 == sub_blanks(sub_nbsp(sub_line_endings(unescape(text3))))
    IN sub_newlines(text4, 2)

\* One match of (?im)^\s*item\s+(\d+[a-z]?)\.?\s*(.*)$ tried at line start i:
\* None, or the match with its start, its end (exclusive) and its two groups.
ItemWord == << "i", "t", "e", "m" >>

\* The pattern is matched left to right, each step with the positions found
\* so far: j after ^\s*, d after item\s+, l after (\d+[a-z]?), q after \.?\s*,
\* e after (.*)$.
match_title(text, i, d, l, q) ==
    Some([start |-> i, end |-> SkipSet(text, q, Chars(text) \ {"\n"}),
          group1 |-> SubSeq(text, d, l - 1),
          group2 |-> SubSeq(text, q, SkipSet(text, q, Chars(text) \ {"\n"}) - 1)])

match_dot(text, i, d, l) ==
    match_title(text, i, d, l,
        SkipSet(text, IF l <= Len(text) /\ text[l] = "." THEN l + 1 ELSE l, Whitespace))

match_letter(text, i, d, d2) ==
    IF d2 > d
    THEN match_dot(text, i, d,
             IF d2 <= Len(text) /\ IsLetter(text[d2]) THEN d2 + 1 ELSE d2)
    ELSE None

match_digits(text, i, k, d) ==
    IF d > k
    THEN match_letter(text, i, d, SkipSet(text, d, {Digits[x] : x \in 1..Len(Digits)}))
    ELSE None

match_item(text, i, j) ==
    IF MatchesAt(text, j, ItemWord)
    THEN match_digits(text, i, j + Len(ItemWord),
                      SkipSet(text, j + Len(ItemWord), Whitespace))
    ELSE None

match_at(text, i) == match_item(text, i, SkipSet(text, i, Whitespace))

\* pattern.finditer(text) from position pos on
RECURSIVE find_matches(_, _)
NextMatch(text, m) == <<m>> \o find_matches(text, m.end)

FirstMatch(text, starts) ==
    IF starts = {} THEN <<>> ELSE NextMatch(text, Val(match_at(text, SetMin(starts))))

find_matches(text, pos) ==
    FirstMatch(text, {i \in pos..(Len(text) + 1) :
                         /\ i = 1 \/ text[i - 1] = "\n"
                         /\ ~IsNone(match_at(text, i))})

\* the loop of _find_sections with the content of a section running through
\* the next header instead of stopping where it starts
sections_of_through_next(text, matches) ==
    [i \in 1..Len(matches) |->
        [item_id |-> UpperStr(matches[i].group1),
         title   |-> Strip(matches[i].group2),
         content |-> sub_newlines(
                        Strip(SubSeq(text, matches[i].end,
                                     (IF i + 1 <= Len(matches) THEN matches[i + 1].end
                                      ELSE Len(text) + 1) - 1)), 3)]]

\* the loop of _find_sections over the matches
sections_of(text, matches) ==
    [i \in 1..Len(matches) |->
        [item_id |-> UpperStr(matches[i].group1),
         title   |-> Strip(matches[i].group2),
         content |-> sub_newlines(
                        Strip(SubSeq(text, matches[i].end,
                                     (IF i + 1 <= Len(matches) THEN matches[i + 1].start
                                      ELSE Len(text) + 1) - 1)), 3)]]

\* SectionExtractor._find_sections
find_sections(text) == sections_of(text, find_matches(text, 1))

\* int(match.group(1)) of a digit string
RECURSIVE ToInt(_)
ToInt(ds) ==
    IF ds = <<>> THEN 0
    ELSE 10 * ToInt(SubSeq(ds, 1, Len(ds) - 1)) + (IndexIn(Digits, ds[Len(ds)]) - 1)

\* SectionExtractor._sort_key: (number, letter); the letter is given by its
\* place in the alphabet, 0 for "", which orders as the strings do.  Every
\* identifier _find_sections makes begins with a digit, so the regular
\* expression of _sort_key always matches.
sort_key_first_digit(item_id) ==
    LET d == SkipSet(item_id, 1, {Digits[x] : x \in 1..Len(Digits)})
    IN << IndexIn(Digits, item_id[1]) - 1,
          IF d <= Len(item_id) THEN IndexIn(UpperAlpha, item_id[d]) ELSE 0 >>

sort_key(item_id) ==
    LET d == SkipSet(item_id, 1, {Digits[x] : x \in 1..Len(Digits)})
    IN << ToInt(SubSeq(item_id, 1, d - 1)),
          IF d <= Len(item_id) THEN IndexIn(UpperAlpha, item_id[d]) ELSE 0 >>

KeyLess(a, b) == a[1] < b[1] \/ (a[1] = b[1] /\ a[2] < b[2])

\* sorted(sections, key=...), which is stable: section k comes after the
\* sections of smaller key and after the earlier sections of equal key
Rank(sections, k) ==
    1 + Cardinality({j \in 1..Len(sections) :
            \/ KeyLess(sort_key(sections[j].item_id), sort_key(sections[k].item_id))
            \/ /\ sort_key(sections[j].item_id) = sort_key(sections[k].item_id)
               /\ j < k})

sorted_sections(sections) ==
    [r \in 1..Len(sections) |->
        sections[CHOOSE k \in 1..Len(sections) : Rank(sections, k) = r]]

\* the files Item_<id>.md after the first n sections were written, by identifier
md_files(sections, n) ==
    LET ids == {sections[k].item_id : k \in 1..n}
    IN [id \in ids |->
          LET last == CHOOSE k \in 1..n :
                          /\ sections[k].item_id = id
                          /\ \A k2 \in 1..n : sections[k2].item_id = id => k2 <= k
          IN [title |-> sections[last].title, content |-> sections[last].content]]

\* _write_index: the index lines, in sorted order
index_of(sorted) ==
    [k \in 1..Len(sorted) |-> [item_id |-> sorted[k].item_id, title |-> sorted[k].title]]

\* the writes of SectionExtractor.extract, nwritten section files being written
\* before a refused write (if any) raises
section_write(c, f1, text, sections, nwritten) ==
    IF nwritten < Len(sections) \/ 0 \in c.fail
    THEN [fs  |-> [f1 EXCEPT !.md = md_files(sections, nwritten)],
          res |-> [Failed(TRUE) EXCEPT !.text = text, !.sections = sections]]
    ELSE [fs  |-> [f1 EXCEPT !.md = md_files(sections, nwritten),
                             !.index = Some(index_of(sorted_sections(sections)))],
          res |-> [NoResult EXCEPT !.status = "ok", !.parsed = TRUE,
                                   !.count = Len(sections), !.text = text,
                                   !.sections = sections]]

\* SectionExtractor.extract once the sections are found.  c.fail holds the
\* writes the file system refuses: k for the file of section k, 0 for the index.
section_found(c, f1, text, sections) ==
    section_write(c, f1, text, sections,
        IF \E k \in 1..Len(sections) : k \in c.fail
        THEN SetMin({k \in 1..Len(sections) : k \in c.fail}) - 1
        ELSE Len(sections))

\* ------------------------------------------------------------------ extract() calls
\* The markup of a list of tables, table k given by the lengths of its rows,
\* as the callbacks HTMLParser makes on it; the file is never empty.
CellText(j) == IF j % 2 = 1 THEN <<"a">> ELSE <<"b">>

RenderCell(j) == << StartEv("td"), DataEv(CellText(j)), EndEv("td") >>

RenderRow(n) ==
    <<StartEv("tr")>> \o Concat([j \in 1..n |-> RenderCell(j)]) \o <<EndEv("tr")>>

RenderTable(shape) ==
    <<StartEv("table")>> \o Concat([i \in 1..Len(shape) |-> RenderRow(shape[i])])
        \o <<EndEv("table")>>

RenderDoc(shapes) ==
    <<DataEv(<<"a">>)>> \o Concat([k \in 1..Len(shapes) |-> RenderTable(shapes[k])])

TableShapes == { <<>>, <<1>>, <<1, 2>>, <<2, 0>> }
ShapeLists == UNION { [1..n -> TableShapes] : n \in 0..MaxTables }
MinColumnsArgs == {None} \cup {Some(n) : n \in {0, 1, 3}}
MaxTablesArgs == {None} \cup {Some(n) : n \in 0..MaxTables}
FailArgs == {{}} \cup {{k} : k \in 0..MaxTables}

TableCalls ==
    { [NoCall EXCEPT !.op = "tables", !.src = k] : k \in SourceKinds \ {"file"} }
    \cup
    { [NoCall EXCEPT !.op = "tables", !.src = "file", !.doc = RenderDoc(sh),
                     !.min_columns = mc, !.max_tables = mt, !.fail = fl] :
        sh \in ShapeLists, mc \in MinColumnsArgs, mt \in MaxTablesArgs, fl \in FailArgs }

\* Documents for section extraction: up to MaxChunks pieces of markup, among
\* them two header lines with a title (their identifiers 2a and 02A have the
\* same sort key) and an escaped tag.  The letter s occurs only inside script
\* blocks and the letter y only inside style blocks.
Chunks ==
    { << "x" >>,
      << "I", "t", "e", "m", " ", "1" >>,
      << "<", "/", "p", ">" >>,
      << "<", "s", "c", "r", "i", "p", "t", ">", "s", "<", "/", "s", "c", "r", "i", "p", "t", ">" >>,
      << "<", "S", "T", "Y", "L", "E", ">", "y", "<", "/", "s", "t", "y", "l", "e", ">" >>,
      << "I", "t", "e", "m", " ", "2", "a", ".", " ", "T", "\n" >>,
      << "\n", "I", "T", "E", "M", " ", "0", "2", "A", " ", "U", "\n" >>,
      << "&", "l", "t", ";", "b", "r", "&", "g", "t", ";" >> }

ChunkLists == UNION { [1..n -> Chunks] : n \in 1..MaxChunks }

SectionCalls ==
    { [NoCall EXCEPT !.op = "sections", !.src = k] : k \in SourceKinds \ {"file"} }
    \cup
    { [NoCall EXCEPT !.op = "sections", !.src = "file", !.html = Concat(cl)] :
        cl \in ChunkLists }

\* the writes the file system may refuse during section extraction
SectionFails == {{}, {0}, {1}, {2}}

InitExtract ==
    /\ parser = ParserInit
    /\ ev = NoEv
    /\ nfed = 0
    /\ table_no = 0
    /\ row_table = 0
    /\ nested_no = 0
    /\ origin = NoOrigin
    /\ gen = GenIdle
    /\ call \in TableCalls \cup SectionCalls
    /\ fs = NoFiles
    /\ res = NoResult

\* extract() up to the try block: validate_source, ensure_output_dir
Open(op) ==
    /\ call.op = op
    /\ res.status = "none"
    /\ IF validate_source(call.src)
       THEN fs' = ensure_output_dir(fs) /\ res' = [res EXCEPT !.status = "reading"]
       ELSE fs' = fs /\ res' = Failed(FALSE)
    /\ UNCHANGED <<parser, ev, nfed, table_no, row_table, nested_no, origin, gen, call>>

TableOpen == Open("tables")

\* parser.feed(html_content): the next callback on the document
TableFeed ==
    /\ call.op = "tables"
    /\ res.status = "reading"
    /\ nfed < Len(call.doc)
    /\ nfed' = nfed + 1
    /\ Handle(call.doc[nfed + 1])
    /\ UNCHANGED <<gen, call, fs, res>>

\* the document is read: filter, write, return or raise
TableFinish ==
    /\ call.op = "tables"
    /\ res.status = "reading"
    /\ nfed = Len(call.doc)
    /\ \E r \in {table_parsed(call, fs, parser.tables)} : fs' = r.fs /\ res' = r.res
    /\ UNCHANGED <<parser, ev, nfed, table_no, row_table, nested_no, origin, gen, call>>

SectionOpen == Open("sections")

\* text = self._html_to_text(raw_html)
SectionText ==
    /\ call.op = "sections"
    /\ res.status = "reading"
    /\ res' = [res EXCEPT !.status = "finding", !.parsed = TRUE,
                          !.text = html_to_text(call.html)]
    /\ UNCHANGED <<parser, ev, nfed, table_no, row_table, nested_no, origin, gen, call, fs>>

\* sections = self._find_sections(text) without the early return
SectionFind_no_early_return ==
    /\ call.op = "sections"
    /\ res.status = "finding"
    /\ res' = [res EXCEPT !.status = "writing", !.sections = find_sections(res.text)]
    /\ UNCHANGED <<parser, ev, nfed, table_no, row_table, nested_no, origin, gen, call, fs>>

\* sections = self._find_sections(text); the early return when there are none
SectionFind ==
    /\ call.op = "sections"
    /\ res.status = "finding"
    /\ \E sections \in {find_sections(res.text)} :
          res' = [res EXCEPT !.status = IF sections = <<>> THEN "ok" ELSE "writing",
                             !.sections = sections]
    /\ UNCHANGED <<parser, ev, nfed, table_no, row_table, nested_no, origin, gen, call, fs>>

\* the section files, the index, return or raise; which writes are refused
\* shows when they are made and is kept in call.fail
SectionWrite ==
    /\ call.op = "sections"
    /\ res.status = "writing"
    /\ \E fl \in SectionFails :
          /\ call' = [call EXCEPT !.fail = fl]
          /\ \E r \in {section_found(call', fs, res.text, res.sections)} :
                fs' = r.fs /\ res' = r.res
    /\ UNCHANGED <<parser, ev, nfed, table_no, row_table, nested_no, origin, gen>>

NextExtract ==
    \/ TableOpen \/ TableFeed \/ TableFinish
    \/ SectionOpen \/ SectionText \/ SectionFind \/ SectionWrite

\* extract() runs to its end once called
SpecExtract == InitExtract /\ [][NextExtract]_vars

\* ------------------------------------------------------------------ FinancialStatementExtractor
\* Config.preferred_units
preferred_units == << "USD", "shares" >>

\* str < str: the order of the characters the dates are written with, and the
\* lexicographic order of strings
DateChars == << "-", "0", "1", "2", "3", "4", "5", "6", "7", "8", "9" >>

StrLess(a, b) ==
    \E k \in 1..Len(b) :
        /\ k <= Len(a) + 1
        /\ \A j \in 1..(k - 1) : a[j] = b[j]
        /\ k = Len(a) + 1 \/ IndexIn(DateChars, a[k]) < IndexIn(DateChars, b[k])

\* a value obs.get(key) that counts as true: present and not the empty string
Truthy(o) == ~IsNone(o) /\ Val(o) # <<>>

\* obs.get("instant") or obs.get("end") or obs.get("filed")
date_of_instant_first(obs) ==
    IF Truthy(obs.instant) THEN obs.instant
    ELSE IF Truthy(obs.end) THEN obs.end
    ELSE obs.filed

\* obs.get("end") or obs.get("instant") or obs.get("filed")
date_of(obs) ==
    IF Truthy(obs.end) THEN obs.end
    ELSE IF Truthy(obs.instant) THEN obs.instant
    ELSE obs.filed

\* mutant: the filed date of an observation is not read
filed_of_ignored(obs) == <<>>

\* obs.get("filed", "")
filed_of(obs) == IF IsNone(obs.filed) THEN <<>> ELSE Val(obs.filed)

\* series[date] = (value, filed)
series_put(series, date, value, filed) ==
    [d \in DOMAIN series \cup {date} |->
        IF d = date THEN [value |-> value, filed |-> filed] ELSE series[d]]

\* the body of the loop of _parse_unit_series with every observation
\* replacing the entry of its date
parse_obs_last_wins(series, obs) ==
    IF ~Truthy(date_of(obs)) THEN series
    ELSE series_put(series, Val(date_of(obs)), obs.val, filed_of(obs))

\* the body of the loop of _parse_unit_series for one observation
parse_obs(series, obs) ==
    IF ~Truthy(date_of(obs)) THEN series
    ELSE IF \/ Val(date_of(obs)) \notin DOMAIN series
            \/ /\ filed_of(obs) # <<>>
               /\ StrLess(series[Val(date_of(obs))].filed, filed_of(obs))
         THEN series_put(series, Val(date_of(obs)), obs.val, filed_of(obs))
         ELSE series

\* FinancialStatementExtractor._parse_unit_series, after n observations
RECURSIVE parse_upto(_, _)
parse_upto(unit_data, n) ==
    IF n = 0 THEN <<>> ELSE parse_obs(parse_upto(unit_data, n - 1), unit_data[n])

parse_unit_series(unit_data) == parse_upto(unit_data, Len(unit_data))

\* the unit map of a fact keeps the order of its keys: a sequence of units,
\* each with its name and its observations
HasUnit(units, unit) == \E i \in 1..Len(units) : units[i].unit = unit
UnitIndex(units, unit) == CHOOSE i \in 1..Len(units) : units[i].unit = unit

\* the first loop of _extract_series at one preferred unit, returning even
\* an empty series only when the unit has entries
try_preferred_nonempty(units, unit) ==
    IF HasUnit(units, unit)
          /\ DOMAIN parse_unit_series(units[UnitIndex(units, unit)].data) # {}
    THEN Some(parse_unit_series(units[UnitIndex(units, unit)].data))
    ELSE None

\* the first loop of _extract_series at one preferred unit: the series
\* returned, None when the loop goes on
try_preferred(units, unit) ==
    IF HasUnit(units, unit)
    THEN Some(parse_unit_series(units[UnitIndex(units, unit)].data))
    ELSE None

\* the second loop of _extract_series returning the series of the unit it is
\* at, empty or not
try_unit_any(unit_data) == Some(parse_unit_series(unit_data))

\* the second loop of _extract_series at one unit: the series returned, None
\* when the loop goes on
try_unit(unit_data) ==
    IF DOMAIN parse_unit_series(unit_data) # {}
    THEN Some(parse_unit_series(unit_data))
    ELSE None

\* ------------------------------------------------------------------ _extract_series calls
\* Facts: an ordered unit map of at most two units with at most MaxObs
\* observations in all.  An observation has an end date, an instant date and
\* a filed date, each absent or one of two dates, and a value that tells it
\* from the other observations of the fact.
D09 == << "0", "9" >>
D10 == << "1", "0" >>

Obs(e, i, f) == [end |-> e, instant |-> i, filed |-> f, val |-> 0]

ObsShapes ==
    { Obs(Some(D09), None, Some(D09)),
      Obs(Some(D09), None, Some(D10)),
      Obs(Some(D09), None, None),
      Obs(None, Some(D09), Some(D10)),
      Obs(Some(D10), Some(D09), Some(D09)),
      Obs(None, None, Some(D09)),
      Obs(None, None, None) }

ObsLists(n) == UNION { [1..k -> ObsShapes] : k \in 0..n }

Numbered(l, u) == [j \in 1..Len(l) |-> [l[j] EXCEPT !.val = 10 * u + j]]

Unit(name, l, u) == [unit |-> name, data |-> Numbered(l, u)]

UnitOrders ==
    { <<>>, << "USD" >>, << "EUR" >>, << "shares", "USD" >>, << "EUR", "USD" >>,
      << "EUR", "shares" >>, << "EUR", "pure" >> }

\* the fact whose unit map has the keys o in this order, the first with the
\* observations l1 and the second with l2
Fact(o, l1, l2) ==
    [units |-> IF Len(o) = 0 THEN <<>>
               ELSE IF Len(o) = 1 THEN << Unit(o[1], l1, 1) >>
               ELSE << Unit(o[1], l1, 1), Unit(o[2], l2, 2) >>]

\* _extract_series is called with a fact and is at its first loop
InitSeries ==
    /\ parser = ParserInit
    /\ ev = NoEv
    /\ nfed = 0
    /\ table_no = 0
    /\ row_table = 0
    /\ nested_no = 0
    /\ origin = NoOrigin
    /\ gen = GenIdle
    /\ \E o \in UnitOrders :
          \E l1 \in ObsLists(IF Len(o) >= 1 THEN MaxObs ELSE 0) :
             \E l2 \in ObsLists(IF Len(o) = 2 THEN MaxObs - Len(l1) ELSE 0) :
                call = [op |-> "series", fact |-> Fact(o, l1, l2)]
    /\ fs = NoFiles
    /\ res = [status |-> "preferred", pref |-> 1, unit |-> 0, series |-> <<>>, chosen |-> ""]

Return(series, unit) ==
    res' = [res EXCEPT !.status = "returned", !.series = series, !.chosen = unit]

\* mutant: a preferred unit whose series is empty is passed over
TryPreferred_past_empty ==
    /\ call.op = "series"
    /\ res.status = "preferred"
    /\ res.pref <= Len(preferred_units)
    /\ \E r \in {try_preferred(call.fact.units, preferred_units[res.pref])} :
          IF IsNone(r) \/ Val(r) = <<>> THEN res' = [res EXCEPT !.pref = res.pref + 1]
          ELSE Return(Val(r), preferred_units[res.pref])
    /\ UNCHANGED <<parser, ev, nfed, table_no, row_table, nested_no, origin, gen, call, fs>>

\* one turn of the loop over preferred_units
TryPreferred ==
    /\ call.op = "series"
    /\ res.status = "preferred"
    /\ res.pref <= Len(preferred_units)
    /\ \E r \in {try_preferred(call.fact.units, preferred_units[res.pref])} :
          IF IsNone(r) THEN res' = [res EXCEPT !.pref = res.pref + 1]
          ELSE Return(Val(r), preferred_units[res.pref])
    /\ UNCHANGED <<parser, ev, nfed, table_no, row_table, nested_no, origin, gen, call, fs>>

\* no preferred unit is in the unit map: on to the loop over units.values()
NoPreferred ==
    /\ call.op = "series"
    /\ res.status = "preferred"
    /\ res.pref > Len(preferred_units)
    /\ res' = [res EXCEPT !.status = "fallback", !.unit = 1]
    /\ UNCHANGED <<parser, ev, nfed, table_no, row_table, nested_no, origin, gen, call, fs>>

\* one turn of the loop over units.values()
TryUnit ==
    /\ call.op = "series"
    /\ res.status = "fallback"
    /\ res.unit <= Len(call.fact.units)
    /\ \E r \in {try_unit(call.fact.units[res.unit].data)} :
          IF IsNone(r) THEN res' = [res EXCEPT !.unit = res.unit + 1]
          ELSE Return(Val(r), call.fact.units[res.unit].unit)
    /\ UNCHANGED <<parser, ev, nfed, table_no, row_table, nested_no, origin, gen, call, fs>>

\* return {}
ReturnEmpty ==
    /\ call.op = "series"
    /\ res.status = "fallback"
    /\ res.unit > Len(call.fact.units)
    /\ Return(<<>>, "")
    /\ UNCHANGED <<parser, ev, nfed, table_no, row_table, nested_no, origin, gen, call, fs>>

NextSeries == TryPreferred \/ NoPreferred \/ TryUnit \/ ReturnEmpty

SpecSeries == InitSeries /\ [][NextSeries]_vars

\* ------------------------------------------------------------------ _generate_statement
\* Config.income_statement_concepts, balance_sheet_concepts, cash_flow_concepts
income_statement_concepts ==
    << "Revenues", "SalesRevenueNet", "CostOfRevenue", "GrossProfit",
       "OperatingExpenses", "ResearchAndDevelopmentExpense",
       "SellingGeneralAndAdministrativeExpense", "OperatingIncomeLoss",
       "InterestExpense", "IncomeTaxExpenseBenefit", "NetIncomeLoss" >>

balance_sheet_concepts ==
    << "Assets", "AssetsCurrent", "Liabilities", "LiabilitiesCurrent",
       "StockholdersEquity",
       "StockholdersEquityIncludingPortionAttributableToNoncontrollingInterest",
       "RetainedEarningsAccumulatedDeficit", "CashAndCashEquivalentsAtCarryingValue",
       "InventoryNet", "CommonStockSharesOutstanding" >>

cash_flow_concepts ==
    << "NetCashProvidedByUsedInOperatingActivities",
       "NetCashProvidedByUsedInInvestingActivities",
       "NetCashProvidedByUsedInFinancingActivities",
       "PaymentsToAcquirePropertyPlantAndEquipment",
       "DepreciationDepletionAndAmortization", "PaymentsForRepurchaseOfCommonStock",
       "ProceedsFromIssuanceOfLongTermDebt", "RepaymentsOfLongTermDebt",
       "PaymentsOfDividends" >>

\* the statements dict of extract, in its order
Statements ==
    << [code |-> "IS", concepts |-> income_statement_concepts],
       [code |-> "BS", concepts |-> balance_sheet_concepts],
       [code |-> "CF", concepts |-> cash_flow_concepts] >>

\* FinancialStatementExtractor._extract_series as a function of the fact: the
\* first preferred unit that is there, else the first unit with a series
extract_series(fact_obj) ==
    IF \E p \in 1..Len(preferred_units) : HasUnit(fact_obj.units, preferred_units[p])
    THEN Val(try_preferred(fact_obj.units,
                 preferred_units[SetMin({p \in 1..Len(preferred_units) :
                                            HasUnit(fact_obj.units, preferred_units[p])})]))
    ELSE IF \E i \in 1..Len(fact_obj.units) : ~IsNone(try_unit(fact_obj.units[i].data))
    THEN Val(try_unit(fact_obj.units[
                 SetMin({i \in 1..Len(fact_obj.units) :
                            ~IsNone(try_unit(fact_obj.units[i].data))})].data))
    ELSE <<>>

\* us_gaap.get(concept_name): the facts are a map from concept names to facts
get_fact(us_gaap, concept_name) ==
    IF concept_name \in DOMAIN us_gaap THEN Some(us_gaap[concept_name]) ELSE None

\* the series of a concept as the first loop of _generate_statement has it:
\* empty when the fact is missing
series_of(us_gaap, concept_name) ==
    IF IsNone(get_fact(us_gaap, concept_name)) THEN <<>>
    ELSE extract_series(Val(get_fact(us_gaap, concept_name)))

\* concept_series: the concepts with a series that is not empty
concept_series(us_gaap, concepts) ==
    {k \in 1..Len(concepts) : DOMAIN series_of(us_gaap, concepts[k]) # {}}

all_dates(us_gaap, concepts) ==
    UNION {DOMAIN series_of(us_gaap, concepts[k]) : k \in concept_series(us_gaap, concepts)}

\* sorted(all_dates) in the reverse order
sorted_dates_descending(dates) ==
    [r \in 1..Cardinality(dates) |->
        CHOOSE d \in dates : Cardinality({e \in dates : StrLess(d, e)}) = r - 1]

\* sorted(all_dates): the dates in the order of strings
sorted_dates(dates) ==
    [r \in 1..Cardinality(dates) |->
        CHOOSE d \in dates : Cardinality({e \in dates : StrLess(e, d)}) = r - 1]

\* a cell of a data row: the value of the concept at the date, or the empty
\* string (None here) when its series has no entry for the date
cell_of(us_gaap, concept, date) ==
    IF date \in DOMAIN series_of(us_gaap, concept)
    THEN Some(series_of(us_gaap, concept)[date].value)
    ELSE None

data_row_present_only(us_gaap, concepts, date) ==
    << date >> \o SelectSeq([k \in 1..Len(concepts) |-> cell_of(us_gaap, concepts[k], date)],
                            LAMBDA cell : ~IsNone(cell))

data_row(us_gaap, concepts, date) ==
    << date >> \o [k \in 1..Len(concepts) |-> cell_of(us_gaap, concepts[k], date)]

\* the rows writer.writerow is given: the header and the data rows
statement_rows(us_gaap, concepts, dates) ==
    [header |-> << "Date" >> \o concepts,
     rows   |-> [r \in 1..Len(dates) |-> data_row(us_gaap, concepts, dates[r])]]

\* FinancialStatementExtractor._generate_statement: None without a date, else
\* the file written
generate_statement_header_only(us_gaap, concepts) ==
    Some(statement_rows(us_gaap, concepts, sorted_dates(all_dates(us_gaap, concepts))))

generate_statement(us_gaap, concepts) ==
    IF all_dates(us_gaap, concepts) = {} THEN None
    ELSE Some(statement_rows(us_gaap, concepts,
                             sorted_dates(all_dates(us_gaap, concepts))))

\* ------------------------------------------------------------------ FinancialStatementExtractor.extract
\* facts.get("facts", {}).get("us-gaap", {}), and facts.get("facts", {}) when
\* that is empty.  A dict is a function of its keys, the empty dict <<>>;
\* facts is None when the response has no "facts".
facts_dict(facts) == IF IsNone(facts) THEN <<>> ELSE Val(facts)

us_gaap_key(facts) ==
    IF "us-gaap" \in DOMAIN facts_dict(facts) THEN facts_dict(facts)["us-gaap"] ELSE <<>>

us_gaap_of(facts) ==
    IF DOMAIN us_gaap_key(facts) = {} THEN facts_dict(facts) ELSE us_gaap_key(facts)

\* The calls: company facts with up to four concepts, two of the income
\* statement, one of the balance sheet and one of the cash flow statement,
\* with at most MaxObs observations in all; the observations of Assets are in
\* a unit that is not preferred.
CandidateConcepts == << "Revenues", "NetIncomeLoss", "Assets", "PaymentsOfDividends" >>

CandidateUnit(k) == IF k = 3 THEN "EUR" ELSE "USD"

StatementObs ==
    { Obs(Some(D09), None, Some(D09)),
      Obs(Some(D10), Some(D09), Some(D09)) }

StatementLists(n) == UNION { [1..k -> StatementObs] : k \in 0..n }

\* the concept map with the concepts present, concept k with observations ls[k]
ConceptMap(present, ls) ==
    [name \in {CandidateConcepts[k] : k \in present} |->
        [units |-> << Unit(CandidateUnit(IndexIn(CandidateConcepts, name)),
                           ls[IndexIn(CandidateConcepts, name)],
                           IndexIn(CandidateConcepts, name)) >>]]

FactsShapes == {"us-gaap", "flat", "empty us-gaap", "no facts"}

\* the response of the API for a concept map m
Response(shape, m) ==
    IF shape = "us-gaap" THEN Some([k \in {"us-gaap"} |-> m])
    ELSE IF shape = "flat" THEN Some(m)
    ELSE IF shape = "empty us-gaap" THEN Some([k \in {"us-gaap"} |-> <<>>])
    ELSE None

FinCall(shape, m, save_raw) ==
    [op |-> "financial", facts |-> Response(shape, m), save_raw |-> save_raw]

NoStatements == [dir |-> FALSE, stmt |-> <<>>, raw |-> FALSE]

FinResult == [status |-> "none", n |-> 0, generated |-> {}, raw_json |-> FALSE, count |-> 0]

InitFinancial ==
    /\ parser = ParserInit
    /\ ev = NoEv
    /\ nfed = 0
    /\ table_no = 0
    /\ row_table = 0
    /\ nested_no = 0
    /\ origin = NoOrigin
    /\ gen = GenIdle
    /\ \E shape \in FactsShapes, save_raw \in BOOLEAN :
          \E present \in SUBSET (IF shape \in {"us-gaap", "flat"}
                                  THEN 1..Len(CandidateConcepts) ELSE {}) :
             \E l1 \in StatementLists(IF 1 \in present THEN MaxObs ELSE 0) :
             \E l2 \in StatementLists(IF 2 \in present THEN MaxObs - Len(l1) ELSE 0) :
             \E l3 \in StatementLists(IF 3 \in present
                                       THEN MaxObs - Len(l1) - Len(l2) ELSE 0) :
             \E l4 \in StatementLists(IF 4 \in present
                                       THEN MaxObs - Len(l1) - Len(l2) - Len(l3) ELSE 0) :
                call = FinCall(shape, ConceptMap(present, << l1, l2, l3, l4 >>), save_raw)
    /\ fs = NoStatements
    /\ res = FinResult

FinFail == res' = [res EXCEPT !.status = "error"]

\* ensure_output_dir and client.get_company_facts, which may raise
FinFetch ==
    /\ call.op = "financial"
    /\ res.status = "none"
    /\ fs' = ensure_output_dir(fs)
    /\ \E fetched \in BOOLEAN :
          IF fetched THEN res' = [res EXCEPT !.status = "facts"] ELSE FinFail
    /\ UNCHANGED <<parser, ev, nfed, table_no, row_table, nested_no, origin, gen, call>>

\* the US-GAAP facts are taken, or ExtractionError raised when there are none
FinFacts ==
    /\ call.op = "financial"
    /\ res.status = "facts"
    /\ IF DOMAIN us_gaap_of(call.facts) = {} THEN FinFail
       ELSE res' = [res EXCEPT !.status = "statement", !.n = 1]
    /\ UNCHANGED <<parser, ev, nfed, table_no, row_table, nested_no, origin, gen, call, fs>>

\* what follows statement n: the next statement, or the raw JSON
AfterStatement_first_only(n) == "raw"

AfterStatement(n) == IF n < Len(Statements) THEN "statement" ELSE "raw"

\* one turn of the loop over the statements: nothing without data, else the
\* file is written, or the open of the file raises
FinStatement ==
    /\ call.op = "financial"
    /\ res.status = "statement"
    /\ \E r \in {generate_statement(us_gaap_of(call.facts), Statements[res.n].concepts)} :
          IF IsNone(r)
          THEN /\ fs' = fs
               /\ res' = [res EXCEPT !.status = AfterStatement(res.n), !.n = res.n + 1]
          ELSE \E written \in BOOLEAN :
                 IF written
                 THEN /\ fs' = [fs EXCEPT !.stmt =
                                   [c \in DOMAIN fs.stmt \cup {Statements[res.n].code} |->
                                       IF c = Statements[res.n].code THEN Val(r)
                                       ELSE fs.stmt[c]]]
                      /\ res' = [res EXCEPT !.status = AfterStatement(res.n),
                                            !.n = res.n + 1,
                                            !.generated = res.generated
                                                \cup {Statements[res.n].code}]
                 ELSE fs' = fs /\ FinFail
    /\ UNCHANGED <<parser, ev, nfed, table_no, row_table, nested_no, origin, gen, call>>

\* _save_raw_json when asked for, which swallows a refused write, and the result
FinRaw ==
    /\ call.op = "financial"
    /\ res.status = "raw"
    /\ \E written \in (IF call.save_raw THEN BOOLEAN ELSE {FALSE}) :
          /\ fs' = [fs EXCEPT !.raw = written]
          /\ res' = [res EXCEPT !.status = "ok", !.raw_json = call.save_raw,
                                !.count = Cardinality(res.generated)]
    /\ UNCHANGED <<parser, ev, nfed, table_no, row_table, nested_no, origin, gen, call>>

NextFinancial == FinFetch \/ FinFacts \/ FinStatement \/ FinRaw

SpecFinancial == InitFinancial /\ [][NextFinancial]_vars

\* ------------------------------------------------------------------ claims
\* The normal form of a cell string, stated on its words: the maximal runs of
\* non-whitespace characters, joined by single spaces.
RECURSIVE WordEnd(_, _)
WordEnd(s, i) ==
    IF i > Len(s) \/ s[i] \in Whitespace THEN i - 1 ELSE WordEnd(s, i + 1)

RECURSIVE Words(_)
Words(s) ==
    LET t == LStrip(s) IN
    IF t = <<>> THEN <<>>
    ELSE LET n == WordEnd(t, 1) IN <<SubSeq(t, 1, n)>> \o Words(SubSeq(t, n + 1, Len(t)))

RECURSIVE JoinWords(_)
JoinWords(ws) ==
    IF ws = <<>> THEN <<>>
    ELSE IF Len(ws) = 1 THEN ws[1]
    ELSE ws[1] \o <<" ">> \o JoinWords(Tail(ws))

Normalized(s) == JoinWords(Words(s))

NormalizedRows(rows) ==
    [i \in 1..Len(rows) |-> [j \in 1..Len(rows[i]) |-> Normalized(rows[i][j])]]

SameOutput ==
    /\ parser'.tables = parser.tables
    /\ parser'.current_table = parser.current_table
    /\ parser'.current_row = parser.current_row

\* C1: once the well-formed markup of one table has been read to its end, the
\* parser's output is exactly one table holding, row by row and cell by cell in
\* the written order, the normalized cell strings that were written.
C1_RoundTrip ==
    gen.phase = "done" => parser.tables = << NormalizedRows(gen.rows) >>

C1_Witness ==
    /\ gen.phase = "done"
    /\ Len(gen.rows) = 2
    /\ Len(gen.rows[1]) = 2
    /\ Len(gen.rows[2]) = 1
    /\ gen.rows[1][1] # gen.rows[1][2]
    /\ Normalized(gen.rows[1][2]) # gen.rows[1][2]
    /\ Len(parser.tables) = 1

\* C2: a Table is appended to the output only by the table-close that takes the
\* depth from 1 to 0, a new accumulating Table is started only by a table-open at
\* depth 0, and a nested table-open or table-close changes neither; so the tables
\* output plus the one being read always number the outermost tables opened.
C2_NestingFlattened ==
    /\ [](Len(parser.tables) + (IF parser.in_table_depth > 0 THEN 1 ELSE 0) = table_no)
    /\ [][ /\ (Len(parser'.tables) # Len(parser.tables)) =>
                  /\ ev' = EndEv("table")
                  /\ parser.in_table_depth = 1
                  /\ parser'.in_table_depth = 0
                  /\ Len(parser'.tables) = Len(parser.tables) + 1
           /\ (ev' = StartEv("table") /\ parser.in_table_depth > 0) =>
                  /\ parser'.tables = parser.tables
                  /\ parser'.current_table = parser.current_table
           /\ (ev' = EndEv("table") /\ parser.in_table_depth > 1) =>
                  /\ parser'.tables = parser.tables
                  /\ parser'.current_table = parser.current_table
           /\ (parser'.current_table # parser.current_table
                 /\ parser'.current_table = Some(<<>>)) =>
                  /\ ev' = StartEv("table")
                  /\ parser.in_table_depth = 0
         ]_vars

C2_Witness ==
    /\ ev = EndEv("table")
    /\ parser.in_table_depth = 0
    /\ nested_no = 1
    /\ table_no = 1
    /\ Len(parser.tables) = 1
    /\ Len(parser.tables[1]) = 1

\* C3: while the depth is 2 or more, a row-open, row-close, cell-open, cell-close
\* or text event adds nothing to the output or to the outer table and leaves the
\* row in progress as it was.
C3_NestedContentIgnored ==
    [][ (parser.in_table_depth >= 2 /\ ev'.tag # "table") =>
            /\ parser'.tables = parser.tables
            /\ parser'.current_table = parser.current_table
            /\ (~IsNone(parser.current_row) => parser'.current_row = parser.current_row)
      ]_vars

\* C4: a row is only ever added to the table it was opened in: a row left open
\* when its table closed contributes nothing to a later table.
C4_UnterminatedRowDropped ==
    [][ ( /\ ~IsNone(parser.current_table)
          /\ ~IsNone(parser'.current_table)
          /\ Len(Val(parser'.current_table)) > Len(Val(parser.current_table)) )
        => row_table = table_no
      ]_vars

\* C5: the depth never becomes negative, and a table-close at depth 0, a
\* row-close with no row open and a cell-close with no cell open each leave the
\* output, the accumulating table and the accumulating row unchanged.
C5_Forgiving ==
    /\ [](parser.in_table_depth >= 0)
    /\ [][ /\ (ev' = EndEv("table") /\ parser.in_table_depth = 0) => SameOutput
           /\ (ev' = EndEv("tr") /\ IsNone(parser.current_row)) => SameOutput
           /\ (ev'.kind = "end" /\ ev'.tag \in CellTags /\ ~parser.in_cell) => SameOutput
         ]_vars

C5_Witness ==
    /\ ev \in {EndEv("td"), EndEv("th")}
    /\ parser.in_table_depth = 1
    /\ ~parser.in_cell
    /\ ~IsNone(parser.current_row)
    /\ Len(Val(parser.current_row)) = 1
    /\ nfed = 5
Done == res.status \in {"ok", "error"}
TableCallDone == call.op = "tables" /\ call.src = "file" /\ Done
SectionCallDone == call.op = "sections" /\ call.src = "file" /\ Done

\* The width of a table: the greatest row length, 0 without rows.
WidthOf(t) ==
    IF t = <<>> THEN 0
    ELSE CHOOSE w \in {Len(t[i]) : i \in 1..Len(t)} : \A i \in 1..Len(t) : Len(t[i]) <= w

Qualifies(i) == WidthOf(res.tables[i]) >= EffectiveMinColumns(call)
Qualifying == {i \in 1..Len(res.tables) : Qualifies(i)}
Retained(i) == \E k \in 1..Len(res.kept) : res.kept[k] = i

\* C6: a parsed table before which fewer than max_tables tables qualified is
\* retained exactly when its width is >= min_columns; the retained tables are
\* in document order and the aggregate file holds them with their rows unchanged.
C6_WidthFilter ==
    TableCallDone =>
        /\ \A i \in 1..Len(res.tables) :
              Cardinality({j \in Qualifying : j < i}) < EffectiveMaxTables(call)
                  => (Retained(i) <=> Qualifies(i))
        /\ \A k \in 1..Len(res.kept) :
              /\ res.kept[k] \in 1..Len(res.tables)
              /\ k > 1 => res.kept[k - 1] < res.kept[k]
        /\ res.status = "ok" =>
              /\ Len(Val(fs.json).tables) = Len(res.kept)
              /\ \A k \in 1..Len(res.kept) :
                    Val(fs.json).tables[k] = res.tables[res.kept[k]]

C6_Witness ==
    /\ TableCallDone
    /\ res.status = "ok"
    /\ Len(res.tables) = 2
    /\ res.kept = <<2>>
    /\ ~Qualifies(1)
    /\ Len(res.tables[1]) = 1
    /\ Len(res.tables[2]) = 2
    /\ Len(res.tables[2][1]) < Len(res.tables[2][2])

\* C7: the number of retained tables never exceeds max_tables and is the
\* smaller of max_tables and the number of qualifying tables, the retained
\* tables being the first qualifying ones (max_tables = 0 included).
C7_CountLimit ==
    TableCallDone =>
        /\ Len(res.kept) <= EffectiveMaxTables(call)
        /\ Len(res.kept) = IF Cardinality(Qualifying) <= EffectiveMaxTables(call)
                           THEN Cardinality(Qualifying) ELSE EffectiveMaxTables(call)
        /\ \A k \in 1..Len(res.kept) :
              /\ res.kept[k] \in Qualifying
              /\ Cardinality({j \in Qualifying : j < res.kept[k]}) = k - 1

\* C8: on a source that is missing, not a regular file or empty, table and
\* section extraction fail before parsing and leave no directory and no file;
\* on a non-empty file with no qualifying table (whose aggregate file can be
\* written) or with no header they return successfully with count 0.
C8_SourceInvalidOrEmptyResult ==
    Done =>
        /\ call.src # "file" => (res.status = "error" /\ ~res.parsed /\ fs = NoFiles)
        /\ (call.op = "tables" /\ call.src = "file" /\ Qualifying = {} /\ 0 \notin call.fail)
              => (res.status = "ok" /\ res.count = 0 /\ res.parsed)
        /\ (call.op = "sections" /\ call.src = "file"
               /\ \A i \in 1..(Len(res.text) + 1) : IsNone(match_at(res.text, i)))
              => (res.status = "ok" /\ res.count = 0 /\ res.parsed)

C8_Witness ==
    /\ TableCallDone
    /\ res.status = "ok"
    /\ res.count = 0
    /\ Len(res.tables) = 2
    /\ fs.dir
    /\ ~IsNone(fs.json)
    /\ fs.csv = <<>>

\* C9 (its table half): when the write of one retained table is refused, the
\* files of the other retained tables and the aggregate file are still written
\* and the call does not fail.
C9_FailuresIsolated ==
    TableCallDone =>
        /\ \A k \in 1..Len(res.kept) :
              k \notin call.fail => (k <= Len(fs.csv) /\ fs.csv[k] = res.tables[res.kept[k]])
        /\ 0 \notin call.fail => (~IsNone(fs.json) /\ res.status = "ok")

\* C10: no text of a script block (here the letter s) and no text of a style
\* block (the letter y) is in the normalized text or in a section's title or
\* content.
C10_ScriptStyleStripped ==
    SectionCallDone =>
        /\ Chars(res.text) \cap {"s", "y"} = {}
        /\ \A k \in 1..Len(res.sections) :
              (Chars(res.sections[k].title) \cup Chars(res.sections[k].content))
                  \cap {"s", "y"} = {}

\* i is the start of a line of t
LineStart(t, i) == i = 1 \/ t[i - 1] = "\n"

\* the text between header match i and the next one, or the end of the text
Between(t, m, i) ==
    SubSeq(t, m[i].end, (IF i < Len(m) THEN m[i + 1].start ELSE Len(t) + 1) - 1)

\* some line of s is matched by the header pattern
HasHeaderLine(s) == \E p \in 1..Len(s) : LineStart(s, p) /\ ~IsNone(match_at(s, p))

SpansOf(t, m, secs) ==
    /\ Len(secs) = Len(m)
    /\ \A p \in 1..Len(t) :
          (LineStart(t, p) /\ ~IsNone(match_at(t, p)))
              => \E i \in 1..Len(m) : m[i].start <= p /\ p < m[i].end
    /\ \A i \in 1..Len(m) :
          /\ LineStart(t, m[i].start)
          /\ match_at(t, m[i].start) = Some(m[i])
          /\ i < Len(m) => m[i].end <= m[i + 1].start
          /\ secs[i].item_id = UpperStr(m[i].group1)
          /\ secs[i].content = Strip(Between(t, m, i))
          /\ ~HasHeaderLine(secs[i].content)

\* C11: the sections are the header matches of the normalized text, one each
\* and in encounter order (a match being what the scan for the header pattern
\* finds, every line the pattern matches lying in one of them); the content of
\* section i is the trimmed text between the end of match i and the start of
\* match i+1 or the end of the text, so the spans do not overlap, and no
\* content has a header line.
C11_SectionSpans ==
    SectionCallDone => SpansOf(res.text, find_matches(res.text, 1), res.sections)

C11_Witness ==
    /\ SectionCallDone
    /\ res.status = "ok"
    /\ Len(res.sections) = 2
    /\ res.sections[1].content = << "x" >>
    /\ res.sections[2].item_id = << "0", "2", "A" >>

\* the position after the identifier of header match mt of t: after the
\* leading whitespace, the word item, the whitespace and the identifier
AfterId(t, mt) ==
    SkipSet(t, SkipSet(t, mt.start, Whitespace) + Len(ItemWord), Whitespace)
        + Len(mt.group1)

AfterDot(t, l) == IF l <= Len(t) /\ t[l] = "." THEN l + 1 ELSE l

\* what is left of the line of t that holds position q, from q on
RestOfLine(t, q) == SubSeq(t, q, SkipSet(t, q, Chars(t) \ {"\n"}) - 1)

IsIdentifier(id) ==
    /\ Len(id) >= 1
    /\ \A k \in 1..Len(id) : IsDigit(id[k]) \/ (k = Len(id) /\ k > 1 /\ IsLetter(id[k]))

TitlesOf(t, m, secs) ==
    \A i \in 1..Len(m) :
        /\ IsIdentifier(m[i].group1)
        /\ secs[i].item_id = UpperStr(m[i].group1)
        /\ secs[i].title = Strip(RestOfLine(t, AfterDot(t, AfterId(t, m[i]))))

\* C12: the identifier of a section is the digits and optional letter of its
\* header, upper-cased, and its title is the trimmed rest of the line the
\* identifier is on, after the optional period: empty when that line ends
\* there, never text of a following line.
C12_HeaderIdTitle ==
    (SectionCallDone /\ Len(res.sections) = Len(find_matches(res.text, 1)))
        => TitlesOf(res.text, find_matches(res.text, 1), res.sections)

NoHeader(t) == \A p \in 1..(Len(t) + 1) : LineStart(t, p) => IsNone(match_at(t, p))

\* C13: on a readable non-empty document whose normalized text has no header
\* match, extraction returns successfully with no section and section_count 0
\* and writes no section file and no index file.
C13_ZeroHeaders ==
    (SectionCallDone /\ NoHeader(res.text)) =>
        /\ res.status = "ok"
        /\ res.sections = <<>>
        /\ res.count = 0
        /\ fs.md = <<>>
        /\ IsNone(fs.index)

C13_Witness ==
    /\ SectionCallDone
    /\ NoHeader(res.text)
    /\ res.status = "ok"
    /\ Len(res.text) >= 3
    /\ "x" \in Chars(res.text)
    /\ "\n" \in Chars(res.text)
    /\ fs.dir

\* C14: after a successful extraction there are as many section files as
\* sections (section_count), and the file named by the identifier of each
\* section holds the title and content of that section, two sections of the
\* same identifier included.
C14_OneFilePerItem ==
    (SectionCallDone /\ res.status = "ok") =>
        /\ res.count = Len(res.sections)
        /\ Cardinality(DOMAIN fs.md) = res.count
        /\ \A k \in 1..Len(res.sections) :
              /\ res.sections[k].item_id \in DOMAIN fs.md
              /\ fs.md[res.sections[k].item_id] =
                     [title |-> res.sections[k].title, content |-> res.sections[k].content]

\* the number and the letter of an identifier: the value of its digits, and
\* the place of its last character in the alphabet, 0 when it is a digit
ItemNumber(id) == ToInt(SelectSeq(id, IsDigit))
ItemLetter(id) == IndexIn(UpperAlpha, id[Len(id)])

Before(a, b) ==
    \/ ItemNumber(a) < ItemNumber(b)
    \/ ItemNumber(a) = ItemNumber(b) /\ ItemLetter(a) < ItemLetter(b)

SameKey(a, b) == ~Before(a, b) /\ ~Before(b, a)

Orders(n) == {f \in [1..n -> 1..n] : \A a, b \in 1..n : f[a] = f[b] => a = b}

\* idx lists secs in the order f
OrderedBy(idx, secs, f) ==
    /\ \A r \in 1..Len(idx) :
          idx[r] = [item_id |-> secs[f[r]].item_id, title |-> secs[f[r]].title]
    /\ \A r, q \in 1..Len(idx) :
          r < q => \/ Before(idx[r].item_id, idx[q].item_id)
                   \/ SameKey(idx[r].item_id, idx[q].item_id) /\ f[r] < f[q]

IndexOrder(idx, secs, m) ==
    /\ Len(idx) = Len(secs)
    /\ \E f \in Orders(Len(secs)) : OrderedBy(idx, secs, f)
    /\ Len(secs) = Len(m)
    /\ \A i \in 1..Len(m) :
          secs[i].item_id = UpperStr(m[i].group1) /\ secs[i].title = Strip(m[i].group2)

\* C15: the index lists every section once, by item number and then by
\* letter (no letter first), sections of equal key in encounter order; the
\* sections returned stay in the order their headers were met.
C15_IndexOrdering ==
    (SectionCallDone /\ res.status = "ok" /\ res.sections # <<>>) =>
        /\ ~IsNone(fs.index)
        /\ IndexOrder(Val(fs.index), res.sections, find_matches(res.text, 1))

C15_Witness ==
    /\ SectionCallDone
    /\ res.status = "ok"
    /\ ~IsNone(fs.index)
    /\ Len(res.sections) = 3
    /\ res.sections[1].item_id = << "2", "A" >>
    /\ res.sections[2].item_id = << "0", "2", "A" >>
    /\ res.sections[3].item_id = << "1" >>
    /\ Val(fs.index)[1].item_id = << "1" >>
    /\ Val(fs.index)[2].item_id = << "2", "A" >>
    /\ Val(fs.index)[3].item_id = << "0", "2", "A" >>

\* C16 as stated: the sections found in the normalized text of a document are
\* the sections found when that text is normalized once more: same
\* identifiers, titles and contents.
C16_SegmentationIdempotent ==
    SectionCallDone => find_sections(html_to_text(res.text)) = res.sections

\* the normalized text has no markup left to read: no < and no &
PlainText(t) == Chars(t) \cap {"<", "&"} = {}

\* C16 as amended: when the normalized text of a document holds neither < nor
\* &, normalizing it once more changes nothing and finds the same sections.
C16_IdempotentOnPlainText ==
    (SectionCallDone /\ PlainText(res.text)) =>
        /\ html_to_text(res.text) = res.text
        /\ find_sections(html_to_text(res.text)) = res.sections

C16_Witness ==
    /\ SectionCallDone
    /\ PlainText(res.text)
    /\ "<" \in Chars(call.html)
    /\ Len(res.sections) = 2
    /\ res.sections[2].content # <<>>
    /\ res.text # call.html

SeriesReturned == call.op = "series" /\ res.status = "returned"

\* the date an observation is keyed by: its end date, else its instant date,
\* else its filed date; None when it has none of them
KeyOf(obs) ==
    IF ~IsNone(obs.end) THEN obs.end
    ELSE IF ~IsNone(obs.instant) THEN obs.instant
    ELSE obs.filed

Keyed(data) == {j \in 1..Len(data) : ~IsNone(KeyOf(data[j]))}
KeysOf(data) == {Val(KeyOf(data[j])) : j \in Keyed(data)}

\* the series has the date keys of the observations data and every entry has
\* the value of one of them
FromUnit(series, data) ==
    /\ DOMAIN series = KeysOf(data)
    /\ \A d \in DOMAIN series :
          \E j \in Keyed(data) : Val(KeyOf(data[j])) = d /\ data[j].val = series[d].value

PreferredPresent(units) ==
    {p \in 1..Len(preferred_units) : HasUnit(units, preferred_units[p])}

DataOf(units, unit) == units[UnitIndex(units, unit)].data

\* C17: when a preferred unit is in the unit map of the fact, the series
\* returned is that of the first such unit in preference order and holds
\* observations of that unit only, whatever the other units hold.
C17_UnitPreference ==
    (SeriesReturned /\ PreferredPresent(call.fact.units) # {}) =>
        /\ res.chosen = preferred_units[SetMin(PreferredPresent(call.fact.units))]
        /\ FromUnit(res.series, DataOf(call.fact.units, res.chosen))

C17_Witness ==
    /\ SeriesReturned
    /\ Len(call.fact.units) = 2
    /\ call.fact.units[1].unit = "EUR"
    /\ call.fact.units[2].unit = "USD"
    /\ Len(call.fact.units[1].data) = 2
    /\ Len(call.fact.units[2].data) = 1
    /\ res.chosen = "USD"
    /\ DOMAIN res.series = {D09}
    /\ KeysOf(call.fact.units[1].data) = {D09, D10}

\* the units of the fact that have an observation with a date key
Yielding(units) == {i \in 1..Len(units) : Keyed(units[i].data) # {}}

\* C18: when no preferred unit is in the unit map, the series returned is that
\* of the first unit, in the order of the map, that has an entry to give, and
\* it is empty only when no unit has one.
C18_UnitFallback ==
    (SeriesReturned /\ PreferredPresent(call.fact.units) = {}) =>
        IF Yielding(call.fact.units) = {}
        THEN DOMAIN res.series = {} /\ res.chosen = ""
        ELSE /\ res.chosen = call.fact.units[SetMin(Yielding(call.fact.units))].unit
             /\ DOMAIN res.series # {}
             /\ FromUnit(res.series, call.fact.units[SetMin(Yielding(call.fact.units))].data)

C18_Witness ==
    /\ SeriesReturned
    /\ Len(call.fact.units) = 2
    /\ call.fact.units[1].unit = "EUR"
    /\ call.fact.units[2].unit = "pure"
    /\ Len(call.fact.units[1].data) = 1
    /\ Keyed(call.fact.units[1].data) = {}
    /\ res.chosen = "pure"
    /\ DOMAIN res.series = {D09, D10}

\* the observations the series returned was made of
Selected == IF res.chosen = "" THEN <<>> ELSE DataOf(call.fact.units, res.chosen)

Undated(obs) == IsNone(obs.end) /\ IsNone(obs.instant) /\ IsNone(obs.filed)

DateKeys(series, data) ==
    /\ \A j \in 1..Len(data) :
          IF Undated(data[j])
          THEN \A d \in DOMAIN series : series[d].value # data[j].val
          ELSE /\ ~IsNone(data[j].end) => Val(data[j].end) \in DOMAIN series
               /\ (IsNone(data[j].end) /\ ~IsNone(data[j].instant))
                     => Val(data[j].instant) \in DOMAIN series
               /\ (IsNone(data[j].end) /\ IsNone(data[j].instant))
                     => Val(data[j].filed) \in DOMAIN series
    /\ \A d \in DOMAIN series :
          \E j \in 1..Len(data) :
              /\ ~Undated(data[j])
              /\ KeyOf(data[j]) = Some(d)
              /\ series[d].value = data[j].val

\* C19: an observation is keyed by its end date, else by its instant date,
\* else by its filed date; one with none of them gives no entry; every key of
\* the series returned is the date key of an observation of the selected unit,
\* whose value the entry has.
C19_DateKey == SeriesReturned => DateKeys(res.series, Selected)

C19_Witness ==
    /\ SeriesReturned
    /\ Len(Selected) = 3
    /\ \E j \in 1..3 : Undated(Selected[j])
    /\ \E j \in 1..3 : Selected[j].end = Some(D10) /\ Selected[j].instant = Some(D09)
    /\ \E j \in 1..3 : IsNone(Selected[j].end) /\ IsNone(Selected[j].instant)
                          /\ Selected[j].filed = Some(D09)
    /\ DOMAIN res.series = {D09, D10}

\* the filed date of an observation, the empty string when it has none
FiledOf(obs) == IF IsNone(obs.filed) THEN <<>> ELSE Val(obs.filed)

\* the observations of data that share the date key d
Sharing(data, d) == {j \in Keyed(data) : Val(KeyOf(data[j])) = d}

\* the first of the observations sharing d that have the greatest filed date
Winner(data, d) ==
    SetMin({j \in Sharing(data, d) :
               \A k \in Sharing(data, d) : ~StrLess(FiledOf(data[j]), FiledOf(data[k]))})

Resolved(series, data) ==
    \A d \in DOMAIN series :
        /\ Sharing(data, d) # {}
        /\ series[d] = [value |-> data[Winner(data, d)].val,
                        filed |-> FiledOf(data[Winner(data, d)])]

\* C20: the entry of a date is the observation of greatest filed date (as
\* strings compare) among those sharing the date, an observation without a
\* filed date losing to any that has one, and the first met among those tied.
C20_ConflictResolution == SeriesReturned => Resolved(res.series, Selected)

C20_Witness ==
    /\ SeriesReturned
    /\ Len(Selected) = 3
    /\ Sharing(Selected, D09) = {1, 2, 3}
    /\ IsNone(Selected[1].filed)
    /\ Selected[2].filed = Some(D10)
    /\ Selected[3].filed = Some(D09)
    /\ res.series[D09] = [value |-> Selected[2].val, filed |-> D10]

C20_WitnessTie ==
    /\ SeriesReturned
    /\ Len(Selected) = 2
    /\ Sharing(Selected, D09) = {1, 2}
    /\ Selected[1].filed = Some(D10)
    /\ Selected[2].filed = Some(D10)
    /\ Selected[1] # [Selected[2] EXCEPT !.val = Selected[1].val]
    /\ res.series[D09].value = Selected[1].val

\* ---- statements
FinDone == call.op = "financial" /\ res.status \in {"ok", "error"}

FinOk == call.op = "financial" /\ res.status = "ok"

\* the concepts of the statement with code c
ConceptsOf(c) == Statements[CHOOSE n \in 1..Len(Statements) : Statements[n].code = c].concepts

\* the concept names of a list that the facts of the call have
Reported(concepts) ==
    {concepts[k] : k \in 1..Len(concepts)} \cap DOMAIN us_gaap_of(call.facts)

\* the observations of a reported concept, in the only unit it has
ObservationsOf(name) == us_gaap_of(call.facts)[name].units[1].data

\* the dates under which the observations of the concepts of a list are keyed
ObservedDates(concepts) ==
    UNION { { Val(date_of(ObservationsOf(name)[j])) :
                j \in {i \in 1..Len(ObservationsOf(name)) :
                          ~IsNone(date_of(ObservationsOf(name)[i]))} } :
            name \in Reported(concepts) }

\* the dates of the data rows of a statement file, in the order of the rows
RowDates(file) == [r \in 1..Len(file.rows) |-> file.rows[r][1]]

\* C21: a statement file has exactly one data row per date of the union of the
\* dates of the resolved series of the concepts of its list, no other date and
\* no date twice, and the rows are strictly ascending by date string.
C21_StatementRows ==
    call.op = "financial" =>
        \A c \in DOMAIN fs.stmt :
            /\ {RowDates(fs.stmt[c])[r] : r \in 1..Len(fs.stmt[c].rows)}
                   = ObservedDates(ConceptsOf(c))
            /\ \A r \in 1..(Len(fs.stmt[c].rows) - 1) :
                   StrLess(RowDates(fs.stmt[c])[r], RowDates(fs.stmt[c])[r + 1])

\* an income statement with two rows, whose dates come from two concepts
C21_Witness ==
    /\ FinOk
    /\ "IS" \in DOMAIN fs.stmt
    /\ Len(fs.stmt["IS"].rows) = 2
    /\ Reported(income_statement_concepts) = {"Revenues", "NetIncomeLoss"}
    /\ Len(ObservationsOf("Revenues")) = 1
    /\ Len(ObservationsOf("NetIncomeLoss")) = 1

\* the resolved series of a concept of the call, empty when it is not reported
ResolvedSeries(name) ==
    IF name \in DOMAIN us_gaap_of(call.facts)
    THEN extract_series(us_gaap_of(call.facts)[name]) ELSE <<>>

\* the cell of a row for the k-th concept of a list
ExpectedCell(concepts, k, date) ==
    IF date \in DOMAIN ResolvedSeries(concepts[k])
    THEN Some(ResolvedSeries(concepts[k])[date].value) ELSE None

\* C22: the header of a statement file is 'Date' and then every concept name of
\* the list in order, reported or not; every data row has one cell more than
\* there are concepts; the cell of a date and a concept is the resolved value
\* when the series of the concept has the date, and else the empty value.
C22_StatementColumns ==
    call.op = "financial" =>
        \A c \in DOMAIN fs.stmt :
            /\ fs.stmt[c].header = << "Date" >> \o ConceptsOf(c)
            /\ \A r \in 1..Len(fs.stmt[c].rows) :
                  /\ Len(fs.stmt[c].rows[r]) = 1 + Len(ConceptsOf(c))
                  /\ \A k \in 1..Len(ConceptsOf(c)) :
                        fs.stmt[c].rows[r][k + 1]
                            = ExpectedCell(ConceptsOf(c), k, fs.stmt[c].rows[r][1])

\* an income statement where Revenues has a value at a date and NetIncomeLoss,
\* reported with another date, has none
C22_Witness ==
    /\ FinOk
    /\ "IS" \in DOMAIN fs.stmt
    /\ \E r \in 1..Len(fs.stmt["IS"].rows) :
          /\ ~IsNone(fs.stmt["IS"].rows[r][2])
          /\ IsNone(fs.stmt["IS"].rows[r][12])
          /\ "NetIncomeLoss" \in DOMAIN us_gaap_of(call.facts)
          /\ DOMAIN ResolvedSeries("NetIncomeLoss") # {}

\* the codes of the statements whose concepts have no dated observation
WithoutData ==
    {Statements[n].code : n \in {m \in 1..Len(Statements) :
                                    ObservedDates(Statements[m].concepts) = {}}}

\* the turn of the loop for a statement without data
NoDataTurn ==
    /\ call.op = "financial"
    /\ res.status = "statement"
    /\ Statements[res.n].code \in WithoutData

\* C23: for a statement whose union of dates is empty nothing is generated: no
\* file is created or written, no error is raised, and the statement is not
\* among the generated ones that statement_count counts.
C23_NoData ==
    /\ [][NoDataTurn => /\ fs' = fs
                        /\ res'.status # "error"
                        /\ res'.generated = res.generated]_vars
    /\ [](FinOk => /\ res.generated \cap WithoutData = {}
                   /\ DOMAIN fs.stmt \cap WithoutData = {}
                   /\ res.count = Cardinality(res.generated))

\* a successful extraction with an income statement and no balance sheet,
\* Assets being reported without a dated observation
C23_Witness ==
    /\ FinOk
    /\ "Assets" \in DOMAIN us_gaap_of(call.facts)
    /\ "BS" \in WithoutData
    /\ res.generated = {"IS"}
    /\ res.count = 1

\* the codes of the three statements
StatementCodes == {Statements[n].code : n \in 1..Len(Statements)}

\* C24 as stated: a successful extraction produces zero, one or three
\* per-statement files.
C24_ZeroOneOrThree ==
    FinOk => Cardinality(DOMAIN fs.stmt) \in {0, 1, 3}

\* C24: a successful extraction produces exactly one per-statement file for
\* each of the three statement types that has any data and none for the
\* others, so any number of files from zero to three.
C24_OneFilePerStatementWithData ==
    FinOk => /\ DOMAIN fs.stmt = StatementCodes \ WithoutData
             /\ res.generated = DOMAIN fs.stmt
             /\ Cardinality(DOMAIN fs.stmt) \in 0..3

\* a successful extraction with an income statement and a balance sheet only
C24_Witness ==
    /\ FinOk
    /\ DOMAIN fs.stmt = {"IS", "BS"}

\* a successful extraction with all three statements
C24_WitnessThree ==
    /\ FinOk
    /\ DOMAIN fs.stmt = {"IS", "BS", "CF"}

\* the statements have been reached: the facts were fetched and are not empty
StatementsReached == call.op = "financial" /\ res.n >= 1

\* C25: when the raw artifact is requested, a refused write of it neither fails
\* the extraction nor changes the statements generated, and the raw artifact
\* is written whether or not generating a statement succeeded.
C25_RawIndependence ==
    /\ [][(call.op = "financial" /\ res.status = "raw")
             => /\ res'.status = "ok"
                /\ res'.generated = res.generated
                /\ fs'.stmt = fs.stmt]_vars
    /\ []((FinDone /\ StatementsReached /\ call.save_raw) => res.raw_json)

\* the raw write was refused and the extraction succeeded with its statements
C25_RawRefused ==
    /\ FinOk
    /\ call.save_raw
    /\ ~fs.raw
    /\ res.generated # {}

\* a statement could not be written and the raw artifact was never attempted
C25_StatementRefused ==
    /\ FinDone
    /\ StatementsReached
    /\ call.save_raw
    /\ res.status = "error"
    /\ ~res.raw_json
    /\ ~fs.raw

\* ---- table outputs
TableOk == TableCallDone /\ res.status = "ok"

\* C26: on every successful table extraction the number of per-table files
\* written, the table_count of the result, the table_count stored in the
\* aggregate file and the number of tables stored in the aggregate file all
\* equal the number of retained tables, and the one aggregate file is written
\* even when no table is retained.
C26_TableOutputsConsistent ==
    TableOk => /\ ~IsNone(fs.json)
               /\ Len(fs.csv) = Len(res.kept)
               /\ res.count = Len(res.kept)
               /\ Val(fs.json).table_count = Len(res.kept)
               /\ Len(Val(fs.json).tables) = Len(res.kept)

\* a successful extraction of a document with tables of which none is retained
C26_Witness ==
    /\ TableOk
    /\ res.tables # <<>>
    /\ res.kept = <<>>
    /\ ~IsNone(fs.json)

\* a successful extraction with two retained tables
C26_WitnessTwo ==
    /\ TableOk
    /\ Len(res.kept) = 2
    /\ Len(fs.csv) = 2

\* ---- parser invariant
\* the depth returns from 1 to 0 in this step
OutermostClose == parser.in_table_depth = 1 /\ parser'.in_table_depth = 0

\* C27: after any sequence of events the depth is at least 0 and a table is
\* being accumulated exactly when the depth is above 0; the output grows by
\* one table exactly when the depth returns from 1 to 0, so it has as many
\* tables as there were such returns, and an outermost table that is still
\* open is not in the output.
C27_ParserInvariant ==
    /\ [](/\ parser.in_table_depth >= 0
          /\ ~IsNone(parser.current_table) <=> parser.in_table_depth > 0
          /\ Len(parser.tables) =
                IF parser.in_table_depth > 0 THEN table_no - 1 ELSE table_no)
    /\ [][Len(parser'.tables) =
             Len(parser.tables) + (IF OutermostClose THEN 1 ELSE 0)]_vars

\* one table closed, and a second one still open with a table nested in it
\* that has a row
C27_Witness ==
    /\ Len(parser.tables) = 1
    /\ table_no = 2
    /\ parser.in_table_depth = 2
    /\ ~IsNone(parser.current_table)
    /\ Val(parser.current_table) # <<>>

\* ---- isolation between tables
\* a row is added to the table being accumulated in this step
RowAdded ==
    /\ ~IsNone(parser.current_table)
    /\ ~IsNone(parser'.current_table)
    /\ Len(Val(parser'.current_table)) = Len(Val(parser.current_table)) + 1

\* C28: every row added to a table was opened by a row-open tag inside that
\* table, and each of its cells was opened inside that table, so that all its
\* text was received inside the table: no row, open cell or buffered text left
\* over from an earlier table appears in a later one.
C28_IsolationBetweenTables ==
    [][RowAdded => /\ row_table = table_no
                   /\ ~origin.row_stale]_vars

\* a row opened in the second table is added to it with a cell that was opened
\* in the first table
C28_StaleCell ==
    /\ origin.row_stale
    /\ table_no = 2
    /\ row_table = 2
    /\ parser.in_table_depth = 1
    /\ ~IsNone(parser.current_row)
    /\ Len(Val(parser.current_row)) = 1

\* ---- order of the observations
\* the observations data in the order f
Permuted(data, f) == [r \in 1..Len(data) |-> data[f[r]]]

\* observations that share a date key have filed dates, all different
DistinctFiled(data) ==
    \A i, j \in Keyed(data) :
        (i # j /\ KeyOf(data[i]) = KeyOf(data[j]))
            => /\ ~IsNone(data[i].filed)
               /\ ~IsNone(data[j].filed)
               /\ data[i].filed # data[j].filed

\* C29: when the observations of the selected unit that share a date key have
\* pairwise different, non-empty filed dates, every order of these observations
\* resolves to the series returned.
C29_OrderIndependence ==
    (SeriesReturned /\ DistinctFiled(Selected)) =>
        \A f \in Orders(Len(Selected)) :
            parse_unit_series(Permuted(Selected, f)) = res.series

\* two observations of one date, the one filed later coming first
C29_Witness ==
    /\ SeriesReturned
    /\ DistinctFiled(Selected)
    /\ \E i, j \in Keyed(Selected) :
          /\ i < j
          /\ KeyOf(Selected[i]) = KeyOf(Selected[j])
          /\ StrLess(Val(Selected[j].filed), Val(Selected[i].filed))
          /\ res.series[Val(KeyOf(Selected[i]))].value = Selected[i].val

\* two observations of one date with the same filed date: another order
\* resolves to another series
C29_WitnessTie ==
    /\ SeriesReturned
    /\ ~DistinctFiled(Selected)
    /\ \E f \in Orders(Len(Selected)) :
          parse_unit_series(Permuted(Selected, f)) # res.series

\* ---- a present preferred unit ends the search
FirstPresent == preferred_units[SetMin(PreferredPresent(call.fact.units))]

\* C30: when a preferred unit is in the unit map, the loop over the preferred
\* units stops at the first one present and its series is returned even when
\* it is empty; no later preferred unit and no unit of the second loop is ever
\* consulted.
C30_NoFallbackPastPreferred ==
    (call.op = "series" /\ PreferredPresent(call.fact.units) # {}) =>
        /\ res.status # "fallback"
        /\ res.unit = 0
        /\ res.pref <= SetMin(PreferredPresent(call.fact.units))
        /\ res.status = "returned" =>
              /\ res.chosen = FirstPresent
              /\ DOMAIN res.series = KeysOf(DataOf(call.fact.units, FirstPresent))

\* USD is in the map without a dated observation, and shares, first in the map
\* and second in preference, has one: the empty series of USD is returned
C30_Witness ==
    /\ SeriesReturned
    /\ Len(call.fact.units) = 2
    /\ call.fact.units[1].unit = "shares"
    /\ Keyed(call.fact.units[1].data) # {}
    /\ call.fact.units[2].unit = "USD"
    /\ Len(call.fact.units[2].data) = 1
    /\ Keyed(call.fact.units[2].data) = {}
    /\ res.chosen = "USD"
    /\ res.series = <<>>
====
